---- MODULE Spec2Model ----
(***************************************************************************)
(* A model of src/languageFeatures.ts: the adapters between the editor     *)
(* host (documents, events, timers, markers) and the TypeScript worker.    *)
(*                                                                         *)
(*  - Spec         the diagnostics manager (DiagnostcsAdapter)             *)
(*  - SpecOutline  OutlineAdapter.provideDocumentSymbols                   *)
(*  - SpecSuggest  SuggestAdapter.provideCompletionItems                   *)
(*  - SpecHover    QuickInfoAdapter.provideHover                           *)
(*  - SpecOps      the promise chain of every operation                    *)
(*  - SpecResolve  SuggestAdapter.resolveCompletionItem                    *)
(*  - SpecPosition Adapter._positionToOffset / _offsetToPosition           *)
(***************************************************************************)
EXTENDS Integers, Sequences, FiniteSets, Bags, TLC

VARIABLES
    open,          \* [Docs -> BOOLEAN]  monaco.editor.getModel(uri) is a model
    lang,          \* [Docs -> Langs]    model.getModeId()
    content,       \* [Docs -> Texts]    model.getValue()
    config,        \* _defaults.getDiagnosticsOptions()
    _disposables,  \* DiagnostcsAdapter._disposables
    _listener,     \* DiagnostcsAdapter._listener: has the uri an entry
    subs,          \* [Docs -> Nat] live onDidChangeContent subscriptions
    handle,        \* [Docs -> 0..MaxTimers] `handle` of the uri's closure
    timers,        \* host timer table: id -> NoTimer or [doc, remaining]
    passes,        \* the bag of _doValidate calls in flight
    markers,       \* [Docs -> Seq(marker)] markers of owner _selector
    sinceChange,   \* [Docs -> 0..QuietPeriod] time since the last change
    burstN,        \* [Docs -> 0..MaxBurst] changes in the running burst
    burstPasses,   \* [Docs -> 0..2] timer-started passes since its start
    call           \* the provider operation under way (other specifications)

vars == <<open, lang, content, config, _disposables, _listener, subs, handle,
          timers, passes, markers, sinceChange, burstN, burstPasses, call>>

diagVars == <<open, lang, content, config, _disposables, _listener, subs,
              handle, timers, passes, markers, sinceChange, burstN,
              burstPasses>>

(***************************************************************************)
(* Bounds and program constants                                            *)
(***************************************************************************)
QuietPeriod == 500      \* setTimeout(..., 500)
TickMs == 250           \* the largest step of the clock
MaxTimers == 3          \* timer ids in use at once
MaxPasses == 2          \* validation passes in flight at once
MaxBurst == 2           \* the burst counter saturates here

Docs == {"a.ts", "lib.d.ts"}
DocOrder == <<"a.ts", "lib.d.ts">>      \* the order of getModels()
Editable == {"a.ts"}    \* the documents the user edits, re-languages, closes;
                        \* the library document is created and stays
Selector == "typescript"
Langs == {Selector, "plaintext"}
NoTimer == [doc |-> "none", remaining |-> 0]

Min(a, b) == IF a < b THEN a ELSE b

(***************************************************************************)
(* Texts and the Position Translator                                       *)
(***************************************************************************)
NL == "\n"

\* The number of line breaks in text[1..n].
RECURSIVE BreaksBefore(_, _)
BreaksBefore(text, n) ==
    IF n = 0 THEN 0
    ELSE BreaksBefore(text, n - 1) + (IF text[n] = NL THEN 1 ELSE 0)

\* The offset at which line `ln` (1-based) starts; Len(text) if there is none.
LineStart(text, ln) ==
    IF ln <= 1 THEN 0
    ELSE LET idx == {i \in 1..Len(text) :
                        text[i] = NL /\ BreaksBefore(text, i) = ln - 1}
         IN IF idx = {} THEN Len(text) ELSE CHOOSE i \in idx : TRUE

LineCount(text) == BreaksBefore(text, Len(text)) + 1

LineLength(text, ln) ==
    LET s == LineStart(text, ln)
        e == IF ln >= LineCount(text) THEN Len(text)
             ELSE LineStart(text, ln + 1) - 1
    IN e - s

_offsetToPosition_zeroBased(text, offset) ==
    LET o == IF offset < 0 THEN 0
             ELSE IF offset > Len(text) THEN Len(text) ELSE offset
        ln == BreaksBefore(text, o) + 1
    IN [lineNumber |-> ln, column |-> o - LineStart(text, ln)]

\* model.getPositionAt(offset): the offset is clamped into the text.
_offsetToPosition(text, offset) ==
    LET o == IF offset < 0 THEN 0
             ELSE IF offset > Len(text) THEN Len(text) ELSE offset
        ln == BreaksBefore(text, o) + 1
    IN [lineNumber |-> ln, column |-> o - LineStart(text, ln) + 1]

\* model.getOffsetAt(position): the position is clamped into the text.
_positionToOffset(text, position) ==
    LET ln == IF position.lineNumber < 1 THEN 1
              ELSE IF position.lineNumber > LineCount(text)
                   THEN LineCount(text) ELSE position.lineNumber
        maxc == LineLength(text, ln) + 1
        col == IF position.lineNumber < 1 THEN 1
               ELSE IF position.lineNumber > LineCount(text) THEN maxc
               ELSE IF position.column < 1 THEN 1
               ELSE IF position.column > maxc THEN maxc ELSE position.column
    IN LineStart(text, ln) + col - 1

_textSpanToRange(text, span) ==
    LET p1 == _offsetToPosition(text, span.start)
        p2 == _offsetToPosition(text, span.start + span.length)
    IN [startLineNumber |-> p1.lineNumber, startColumn |-> p1.column,
        endLineNumber |-> p2.lineNumber, endColumn |-> p2.column]

(***************************************************************************)
(* The worker's diagnostics, a function of the text it is asked about      *)
(***************************************************************************)
Texts == {<<"a">>, <<"(", NL, "x">>}
LibText == <<"x">>      \* the text of a document that is never edited
NoText == <<>>

\* One diagnostic of length 1 at every occurrence of ch in text, in order.
DiagsAt(text, ch, msg) ==
    LET idx == SelectSeq([i \in 1..Len(text) |-> i], LAMBDA i : text[i] = ch)
    IN [k \in 1..Len(idx) |->
            [start |-> idx[k] - 1, length |-> 1, messageText |-> msg]]

getSyntacticDiagnostics(text) == DiagsAt(text, "(", "syntax")
getSemanticDiagnostics(text) == DiagsAt(text, "x", "semantic")

(***************************************************************************)
(* DiagnostcsAdapter.  The operators below work on a record S of the       *)
(* manager's and the host's mutable state, so that a handler can call      *)
(* another; S.pub and S.started log what a handler published and started.  *)
(***************************************************************************)
Configs == [noSyntaxValidation : BOOLEAN, noSemanticValidation : BOOLEAN]
NoReq == [st |-> "none", diags |-> <<>>]
PendingReq == [st |-> "pending", diags |-> <<>>]
NewPass(d) == [doc |-> d, stage |-> "worker", text |-> NoText,
               syn |-> NoReq, sem |-> NoReq, closedSince |-> FALSE]

clearTimeout_noop(ts, h) == ts

\* clearTimeout(handle): an undefined, fired or cleared handle changes nothing.
clearTimeout(ts, h) ==
    IF h \in DOMAIN ts THEN [ts EXCEPT ![h] = NoTimer] ELSE ts

\* Timer ids are opaque: an id is handed out again once its timer is gone and
\* no closure's `handle` still holds it.
FreeIds(ts, hs) ==
    {i \in DOMAIN ts : ts[i] = NoTimer /\ \A d \in Docs : hs[d] # i}

setTimeout_now(ts, id, d) ==
    [ts EXCEPT ![id] = [doc |-> d, remaining |-> 0]]

setTimeout(ts, id, d) ==
    [ts EXCEPT ![id] = [doc |-> d, remaining |-> QuietPeriod]]

PendingTimers(ts, d) == {i \in DOMAIN ts : ts[i] # NoTimer /\ ts[i].doc = d}

setModelMarkers_append(S, d, ms) ==
    [S EXCEPT !.markers[d] = @ \o ms, !.pub = @ \cup {d}]

\* monaco.editor.setModelMarkers(model, owner, markers): the owner's markers
\* of the model are replaced.
setModelMarkers(S, d, ms) ==
    [S EXCEPT !.markers[d] = ms, !.pub = @ \cup {d}]

\* _doValidate up to its first suspension: this._worker(resource).then(...)
_doValidate(S, d) ==
    [S EXCEPT !.passes = @ (+) SetToBag({NewPass(d)}), !.started[d] = @ + 1]

\* The content-change callback of d's closure.
onDidChangeContent(S, d) ==
    LET ts1 == clearTimeout(S.timers, S.handle[d])
        id == CHOOSE i \in FreeIds(ts1, [S.handle EXCEPT ![d] = 0]) :
                 \A j \in FreeIds(ts1, [S.handle EXCEPT ![d] = 0]) : i <= j
    IN [S EXCEPT !.timers = setTimeout(ts1, id, d), !.handle[d] = id]

onModelAdd(S, d, lng) ==
    IF lng[d] # Selector THEN S
    ELSE _doValidate([S EXCEPT !.subs[d] = @ + 1,
                               !.handle[d] = 0,
                               !.listener[d] = TRUE], d)

listenerDispose_keepTimer(S, d) ==
    [S EXCEPT !.subs[d] = @ - 1, !.handle[d] = 0]

\* this._listener[key].dispose(): changeSubscription.dispose(); clearTimeout
listenerDispose(S, d) ==
    [S EXCEPT !.subs[d] = @ - 1,
              !.timers = clearTimeout(@, S.handle[d]),
              !.handle[d] = 0]

onModelRemoved_markersOnly(S, d) == setModelMarkers(S, d, <<>>)

onModelRemoved(S, d) ==
    LET S1 == setModelMarkers(S, d, <<>>)
    IN IF S1.listener[d]
       THEN [listenerDispose(S1, d) EXCEPT !.listener[d] = FALSE]
       ELSE S1

\* for (const model of getModels()) { onModelRemoved(model); onModelAdd(model) }
RECURSIVE redoAll(_, _, _, _)
redoAll(S, k, opn, lng) ==
    IF k > Len(DocOrder) THEN S
    ELSE LET d == DocOrder[k]
         IN redoAll(IF opn[d] THEN onModelAdd(onModelRemoved(S, d), d, lng)
                    ELSE S, k + 1, opn, lng)

\* for (const model of getModels()) { onModelRemoved(model) }
RECURSIVE removeAll(_, _, _)
removeAll(S, k, opn) ==
    IF k > Len(DocOrder) THEN S
    ELSE LET d == DocOrder[k]
         IN removeAll(IF opn[d] THEN onModelRemoved(S, d) ELSE S, k + 1, opn)

\* monaco.editor.getModels().forEach(onModelAdd)
RECURSIVE addAll(_, _, _, _)
addAll(S, k, opn, lng) ==
    IF k > Len(DocOrder) THEN S
    ELSE LET d == DocOrder[k]
         IN addAll(IF opn[d] THEN onModelAdd(S, d, lng) ELSE S,
                   k + 1, opn, lng)

\* this._disposables, in the order the constructor pushes them.
AllDisposables ==
    <<"onDidCreateModel", "onWillDisposeModel", "onDidChangeModelLanguage",
      "disposeModels", "onDidChange">>

Subscribed(ds, name) == \E i \in 1..Len(ds) : ds[i] = name

disposeEach_again(S, ds, k, opn) == removeAll(S, 1, opn)

\* this._disposables.forEach(d => d && d.dispose())
RECURSIVE disposeEach(_, _, _, _)
disposeEach(S, ds, k, opn) ==
    IF k > Len(ds) THEN S
    ELSE disposeEach(IF ds[k] = "disposeModels" THEN removeAll(S, 1, opn)
                     ELSE S, ds, k + 1, opn)

\* diagnostics.reduce((p, c) => c.concat(p), [])
RECURSIVE reduceConcat(_, _)
reduceConcat(list, acc) ==
    IF list = <<>> THEN acc
    ELSE reduceConcat(Tail(list), Head(list) \o acc)

\* Promise.join(promises): the results in the order the promises were pushed.
joined(p) ==
    (IF p.syn.st # "none" THEN <<p.syn.diags>> ELSE <<>>)
    \o (IF p.sem.st # "none" THEN <<p.sem.diags>> ELSE <<>>)

_convertDiagnostics(text, diag) ==
    LET p1 == _offsetToPosition(text, diag.start)
        p2 == _offsetToPosition(text, diag.start + diag.length)
    IN [severity |-> "Error",
        startLineNumber |-> p1.lineNumber, startColumn |-> p1.column,
        endLineNumber |-> p2.lineNumber, endColumn |-> p2.column,
        message |-> diag.messageText]

\* The worker's answers to the requests the pass p has pending.
answered(p) ==
    [p EXCEPT !.syn = IF @.st = "pending"
                      THEN [st |-> "done",
                            diags |-> getSyntacticDiagnostics(p.text)]
                      ELSE @,
              !.sem = IF @.st = "pending"
                      THEN [st |-> "done",
                            diags |-> getSemanticDiagnostics(p.text)]
                      ELSE @]

\* The second then-callback of _doValidate, for the pass p in flight with the
\* joined results of q.
resultsArrived(S, p, q, opn, txt) ==
    LET S1 == [S EXCEPT !.passes = @ (-) SetToBag({p})]
        ds == reduceConcat(joined(q), <<>>)
    IN IF ~opn[p.doc] THEN S1
       ELSE setModelMarkers(S1, p.doc,
                [k \in 1..Len(ds) |-> _convertDiagnostics(txt[p.doc], ds[k])])

workerResolved_swapped(S, p, opn, cfg, txt) ==
    LET rest == S.passes (-) SetToBag({p})
        q == [p EXCEPT !.stage = "join",
                       !.text = txt[p.doc],
                       !.syn = IF ~cfg.noSemanticValidation
                               THEN PendingReq ELSE NoReq,
                       !.sem = IF ~cfg.noSyntaxValidation
                               THEN PendingReq ELSE NoReq]
        S1 == [S EXCEPT !.passes = rest (+) SetToBag({q})]
    IN IF ~opn[p.doc] THEN [S EXCEPT !.passes = rest]
       ELSE IF joined(q) = <<>> THEN resultsArrived(S1, q, q, opn, txt)
       ELSE S1

\* The first then-callback of _doValidate, for the pass p in flight.  With
\* both validations off it makes no request, Promise.join([]) is complete at
\* once and the second then-callback runs in the same turn.
workerResolved(S, p, opn, cfg, txt) ==
    LET rest == S.passes (-) SetToBag({p})
        q == [p EXCEPT !.stage = "join",
                       !.text = txt[p.doc],
                       !.syn = IF ~cfg.noSyntaxValidation
                               THEN PendingReq ELSE NoReq,
                       !.sem = IF ~cfg.noSemanticValidation
                               THEN PendingReq ELSE NoReq]
        S1 == [S EXCEPT !.passes = rest (+) SetToBag({q})]
    IN IF ~opn[p.doc] THEN [S EXCEPT !.passes = rest]
       ELSE IF joined(q) = <<>> THEN resultsArrived(S1, q, q, opn, txt)
       ELSE S1

(***************************************************************************)
(* The diagnostics manager as a state machine                              *)
(***************************************************************************)
NoCall == [op |-> "none"]
NoStarts == [d \in Docs |-> 0]

Cur == [listener |-> _listener, subs |-> subs, handle |-> handle,
        timers |-> timers, passes |-> passes, markers |-> markers,
        pub |-> {}, started |-> NoStarts]

Blank == [listener |-> [d \in Docs |-> FALSE], subs |-> NoStarts,
          handle |-> NoStarts, timers |-> [i \in 1..MaxTimers |-> NoTimer],
          passes |-> EmptyBag, markers |-> [d \in Docs |-> <<>>],
          pub |-> {}, started |-> NoStarts]

\* The step's effect on the manager's and the host's state.
Commit(S) ==
    /\ BagCardinality(S.passes) <= MaxPasses
    /\ _listener' = S.listener
    /\ subs' = S.subs
    /\ handle' = S.handle
    /\ timers' = S.timers
    /\ passes' = S.passes
    /\ markers' = S.markers

\* A closure of d is replaced or released: its burst is over.
ResetBurst(ds) ==
    /\ burstN' = [d \in Docs |-> IF d \in ds THEN 0 ELSE burstN[d]]
    /\ burstPasses' = [d \in Docs |-> IF d \in ds THEN 0 ELSE burstPasses[d]]
    /\ sinceChange' = [d \in Docs |->
                          IF d \in ds THEN QuietPeriod ELSE sinceChange[d]]

OpenDocs == {d \in Docs : open[d]}

\* Observation only: the passes of d in flight have seen d's model disposed.
MarkClosed(S, d) ==
    [S EXCEPT !.passes =
        BagOfAll(LAMBDA p : IF p.doc = d
                            THEN [p EXCEPT !.closedSince = TRUE] ELSE p, @)]

Init ==
    /\ \E o \in SUBSET Docs :
         /\ open = [d \in Docs |-> d \in o]
         /\ lang = [d \in Docs |-> IF d \in o THEN Selector ELSE "none"]
         /\ content = [d \in Docs |-> IF d \notin o THEN NoText
                                       ELSE IF d \in Editable THEN <<"a">>
                                       ELSE LibText]
    /\ config = [noSyntaxValidation |-> FALSE, noSemanticValidation |-> FALSE]
    /\ _disposables = AllDisposables
    /\ LET S == addAll(Blank, 1, open, lang)
       IN /\ _listener = S.listener
          /\ subs = S.subs
          /\ handle = S.handle
          /\ timers = S.timers
          /\ passes = S.passes
          /\ markers = S.markers
    /\ sinceChange = [d \in Docs |-> QuietPeriod]
    /\ burstN = NoStarts
    /\ burstPasses = NoStarts
    /\ call = NoCall

\* The host creates a model: onDidCreateModel.
CreateModel(d, l, t) ==
    /\ ~open[d]
    /\ IF d \in Editable THEN t \in Texts ELSE l = Selector /\ t = LibText
    /\ open' = [open EXCEPT ![d] = TRUE]
    /\ lang' = [lang EXCEPT ![d] = l]
    /\ content' = [content EXCEPT ![d] = t]
    /\ Commit(IF Subscribed(_disposables, "onDidCreateModel")
              THEN onModelAdd(Cur, d, lang') ELSE Cur)
    /\ ResetBurst({d})
    /\ UNCHANGED <<config, _disposables, call>>

\* The host disposes a model: onWillDisposeModel, then the model is gone.
DisposeModel(d) ==
    /\ open[d]
    /\ d \in Editable
    /\ open' = [open EXCEPT ![d] = FALSE]
    /\ lang' = [lang EXCEPT ![d] = "none"]
    /\ content' = [content EXCEPT ![d] = NoText]
    /\ Commit(MarkClosed(IF Subscribed(_disposables, "onWillDisposeModel")
                          THEN onModelRemoved(Cur, d) ELSE Cur, d))
    /\ ResetBurst({d})
    /\ UNCHANGED <<config, _disposables, call>>

\* The host changes a model's language: onDidChangeModelLanguage.
ChangeLanguage(d, l) ==
    /\ open[d]
    /\ d \in Editable
    /\ l # lang[d]
    /\ lang' = [lang EXCEPT ![d] = l]
    /\ Commit(IF Subscribed(_disposables, "onDidChangeModelLanguage")
              THEN onModelAdd(onModelRemoved(Cur, d), d, lang')
              ELSE Cur)
    /\ ResetBurst({d})
    /\ UNCHANGED <<open, content, config, _disposables, call>>

\* The options change: _defaults.onDidChange.
ChangeConfig(c) ==
    /\ config' = c
    /\ Commit(IF Subscribed(_disposables, "onDidChange")
              THEN redoAll(Cur, 1, open, lang) ELSE Cur)
    /\ ResetBurst(OpenDocs)
    /\ UNCHANGED <<open, lang, content, _disposables, call>>

\* The text of a model changes: every live subscription's callback runs.
ChangeContent(d, t) ==
    /\ open[d]
    /\ d \in Editable
    /\ t # content[d]
    /\ content' = [content EXCEPT ![d] = t]
    /\ IF subs[d] > 0
       THEN /\ FreeIds(clearTimeout(timers, handle[d]),
                       [handle EXCEPT ![d] = 0]) # {}
            /\ Commit(onDidChangeContent(Cur, d))
            /\ burstN' = [burstN EXCEPT ![d] =
                            IF PendingTimers(timers, d) = {} THEN 1
                            ELSE Min(MaxBurst, @ + 1)]
            /\ burstPasses' = [burstPasses EXCEPT ![d] =
                            IF PendingTimers(timers, d) = {} THEN 0 ELSE @]
            /\ sinceChange' = [sinceChange EXCEPT ![d] = 0]
       ELSE /\ Commit(Cur)
            /\ UNCHANGED <<burstN, burstPasses, sinceChange>>
    /\ UNCHANGED <<open, lang, config, _disposables, call>>

\* Time passes, but not past the moment a timer is due.
Tick ==
    LET live == {i \in DOMAIN timers : timers[i] # NoTimer}
        due == {i \in live : timers[i].remaining = 0}
        dt == IF live = {} THEN TickMs
              ELSE Min(TickMs, CHOOSE r \in {timers[i].remaining : i \in live} :
                          \A i \in live : r <= timers[i].remaining)
    IN /\ due = {}
       /\ live # {} \/ \E d \in Docs : sinceChange[d] < QuietPeriod
       /\ timers' = [i \in DOMAIN timers |->
                        IF i \in live
                        THEN [timers[i] EXCEPT !.remaining = @ - dt]
                        ELSE timers[i]]
       /\ sinceChange' = [d \in Docs |-> Min(QuietPeriod, sinceChange[d] + dt)]
       /\ UNCHANGED <<open, lang, content, config, _disposables, _listener,
                      subs, handle, passes, markers, burstN, burstPasses, call>>

\* A debounce timer runs its callback: () => this._doValidate(model.uri)
TimerFire(i) ==
    /\ timers[i] # NoTimer
    /\ timers[i].remaining = 0
    /\ LET d == timers[i].doc
       IN /\ Commit(_doValidate([Cur EXCEPT !.timers[i] = NoTimer], d))
          /\ burstPasses' = [burstPasses EXCEPT ![d] = Min(2, @ + 1)]
    /\ UNCHANGED <<open, lang, content, config, _disposables, burstN,
                   sinceChange, call>>

\* this._worker(resource) resolves for a pass in flight.
WorkerResolved(p) ==
    /\ p.stage = "worker"
    /\ Commit(workerResolved(Cur, p, open, config, content))
    /\ UNCHANGED <<open, lang, content, config, _disposables, burstN,
                   burstPasses, sinceChange, call>>

\* The worker has answered every request of a pass in flight, from the text it
\* was asked about, and Promise.join(promises) resolves.
ResultsArrive(p) ==
    /\ p.stage = "join"
    /\ Commit(resultsArrived(Cur, p, answered(p), open, content))
    /\ UNCHANGED <<open, lang, content, config, _disposables, burstN,
                   burstPasses, sinceChange, call>>

\* DiagnostcsAdapter.dispose()
Dispose ==
    /\ Commit(disposeEach(Cur, _disposables, 1, open))
    /\ _disposables' = <<>>
    /\ ResetBurst(IF Subscribed(_disposables, "disposeModels")
                  THEN OpenDocs ELSE {})
    /\ UNCHANGED <<open, lang, content, config, call>>

Next ==
    \/ \E d \in Docs, l \in Langs, t \in Texts \cup {LibText} :
          CreateModel(d, l, t)
    \/ \E d \in Docs : DisposeModel(d)
    \/ \E d \in Docs, l \in Langs : ChangeLanguage(d, l)
    \/ \E c \in Configs : ChangeConfig(c)
    \/ \E d \in Docs, t \in Texts : ChangeContent(d, t)
    \/ Tick
    \/ \E i \in DOMAIN timers : TimerFire(i)
    \/ \E p \in BagToSet(passes) : WorkerResolved(p)
    \/ \E p \in BagToSet(passes) : ResultsArrive(p)
    \/ Dispose

Spec == Init /\ [][Next]_vars

(***************************************************************************)
(* Properties of the diagnostics manager                                   *)
(***************************************************************************)
PassesOf(d) == {p \in BagToSet(passes) : p.doc = d}
InFlight(B, d) ==
    LET ps == {p \in BagToSet(B) : p.doc = d}
        RECURSIVE Sum(_)
        Sum(X) == IF X = {} THEN 0
                  ELSE LET x == CHOOSE x \in X : TRUE
                       IN CopiesIn(x, B) + Sum(X \ {x})
    IN Sum(ps)
AwaitingWorker(B, d) ==
    CopiesIn(NewPass(d), B)
    + CopiesIn([NewPass(d) EXCEPT !.closedSince = TRUE], B)
Disposed == _disposables = <<>>

\* A then-callback of the pass p runs in this step.
Completes(p) == WorkerResolved(p) \/ ResultsArrive(p)

\* The documents the callback of p that is due publishes markers for.
PublishedBy(p) ==
    IF p.stage = "join"
    THEN resultsArrived(Cur, p, answered(p), open, content).pub
    ELSE workerResolved(Cur, p, open, config, content).pub

\* C1 (debounce coalescing): while a burst of N >= 1 content changes of a
\* tracked document runs, no pass has been started and exactly one timer is
\* pending, due one quiet period after the last change; once the timer has
\* fired the burst has started exactly one pass, and it started a full quiet
\* period after the last change, on the text that change left.
DebounceCoalescing ==
    \A d \in Docs :
        burstN[d] >= 1 =>
            \/ /\ burstPasses[d] = 0
               /\ Cardinality(PendingTimers(timers, d)) = 1
               /\ \A i \in PendingTimers(timers, d) :
                      timers[i].remaining = QuietPeriod - sinceChange[d]
            \/ /\ burstPasses[d] = 1
               /\ PendingTimers(timers, d) = {}
               /\ sinceChange[d] = QuietPeriod

\* A burst of at least two changes has ended in its one pass.
DebounceCoalescingWitness ==
    \E d \in Docs : burstN[d] >= 2 /\ burstPasses[d] = 1

\* C2 as claimed: at most one validation pass is in flight per document.
OnePassInFlight == \A d \in Docs : InFlight(passes, d) <= 1

\* C2 as amended: at most one debounce timer is pending per document (the
\* passes in flight are not limited).
OneTimerPending == \A d \in Docs : Cardinality(PendingTimers(timers, d)) <= 1

\* Two passes are in flight while a burst of changes waits on its one timer.
OneTimerPendingWitness ==
    \E d \in Docs : /\ burstN[d] >= 2
                    /\ Cardinality(PendingTimers(timers, d)) = 1
                    /\ InFlight(passes, d) = 2

\* C3 (stale-document discard): a pass whose document was closed after the
\* pass started publishes nothing when its results arrive.
StaleDiscard ==
    [][\A p \in BagToSet(passes) :
           (Completes(p) /\ p.closedSince) => PublishedBy(p) = {}]_vars

\* C8 (disposal idempotence): once the manager is disposed no debounce timer
\* is pending, no listener and no subscription is left, and a further
\* dispose() publishes nothing and changes nothing; nor does dispose() touch
\* anything when no document is open.
DisposeIdempotent ==
    LET S == disposeEach(Cur, _disposables, 1, open)
    IN /\ Disposed =>
            /\ \A i \in DOMAIN timers : timers[i] = NoTimer
            /\ \A d \in Docs : ~_listener[d] /\ subs[d] = 0
            /\ S = Cur
       /\ OpenDocs = {} => S = Cur

\* The manager was disposed while a document was open and a pass in flight.
DisposeIdempotentWitness ==
    /\ Disposed
    /\ \E d \in Docs : open[d] /\ lang[d] = Selector /\ InFlight(passes, d) > 0

\* C9 (close): the close handler publishes the empty list, releases the
\* listener and cancels the timer; while the document is closed no timer of
\* it is pending, no subscription is live and no pass is started for it.
CloseReleases ==
    /\ [](\A d \in Docs : ~open[d] =>
            /\ PendingTimers(timers, d) = {}
            /\ subs[d] = 0
            /\ ~_listener[d])
    /\ [][\A d \in Docs :
            /\ (DisposeModel(d) /\ ~Disposed) =>
                  /\ d \in onModelRemoved(Cur, d).pub
                  /\ markers'[d] = <<>>
            /\ ~open'[d] => AwaitingWorker(passes', d) <= AwaitingWorker(passes, d)
         ]_vars

\* A tracked document is closed: it has been edited, its timer is gone and its
\* markers are cleared while an earlier pass is still in flight.
CloseReleasesWitness ==
    \E d \in Docs : /\ ~open[d] /\ ~Disposed
                    /\ burstN[d] = 0
                    /\ InFlight(passes, d) > 0
                    /\ \E p \in PassesOf(d) : p.stage = "join" /\ p.text # <<"a">>

\* C10 (configuration change): the handler runs close+reopen for every open
\* document of the language (timer cancelled, markers cleared, one listener,
\* exactly one pass started), and a pass asks for the syntactic diagnostics
\* iff noSyntaxValidation is false and for the semantic ones iff
\* noSemanticValidation is false in the configuration then in force.
ConfigRevalidates ==
    /\ [][\A c \in Configs : (ChangeConfig(c) /\ ~Disposed) =>
            LET S == redoAll(Cur, 1, open, lang)
            IN \A d \in Docs : (open[d] /\ lang[d] = Selector) =>
                  /\ PendingTimers(timers', d) = {}
                  /\ d \in S.pub
                  /\ markers'[d] = <<>>
                  /\ _listener'[d] /\ subs'[d] = 1
                  /\ S.started[d] = 1
                  /\ AwaitingWorker(passes', d) = AwaitingWorker(passes, d) + 1
         ]_vars
    /\ [][\A p \in BagToSet(passes) : (WorkerResolved(p) /\ open[p.doc]) =>
            IF config.noSyntaxValidation /\ config.noSemanticValidation
            THEN passes' = passes (-) SetToBag({p})
            ELSE \E q \in BagToSet(passes') :
                    /\ passes' = (passes (-) SetToBag({p})) (+) SetToBag({q})
                    /\ q.doc = p.doc /\ q.stage = "join"
                    /\ (q.syn.st = "pending") = ~config.noSyntaxValidation
                    /\ (q.sem.st = "pending") = ~config.noSemanticValidation
         ]_vars

\* After a configuration change that turned the syntactic check off, a pass
\* has asked for the semantic diagnostics alone.
ConfigRevalidatesWitness ==
    /\ config.noSyntaxValidation /\ ~config.noSemanticValidation /\ ~Disposed
    /\ \E d \in Docs : \E p \in PassesOf(d) :
          /\ open[d] /\ p.stage = "join"
          /\ p.syn.st = "none" /\ p.sem.st = "pending"

\* The diagnostics the worker returns to the pass p: those of the kinds p asks
\* for, of the text p asks about.
ReturnedTo(p) ==
    LET syn == getSyntacticDiagnostics(p.text)
        sem == getSemanticDiagnostics(p.text)
    IN (IF p.syn.st = "pending" THEN {syn[k] : k \in 1..Len(syn)} ELSE {})
       \cup (IF p.sem.st = "pending" THEN {sem[k] : k \in 1..Len(sem)} ELSE {})

\* C11 (marker replacement): when a pass publishes for a document, the
\* document's markers become exactly the converted diagnostics returned to
\* that pass (syntactic plus semantic, as asked for), with no marker of an
\* earlier publish; a pass with zero diagnostics publishes the empty list.
MarkerReplacement ==
    [][\A p \in BagToSet(passes) :
           /\ (WorkerResolved(p) /\ p.doc \in PublishedBy(p)) =>
                  /\ config.noSyntaxValidation /\ config.noSemanticValidation
                  /\ markers'[p.doc] = <<>>
           /\ (ResultsArrive(p) /\ open[p.doc]) =>
               LET ms == markers'[p.doc]
               IN /\ p.doc \in PublishedBy(p)
                  /\ {ms[k] : k \in 1..Len(ms)} =
                         {_convertDiagnostics(content[p.doc], d) :
                             d \in ReturnedTo(p)}
                  /\ Len(ms) = Cardinality(ReturnedTo(p))
                  /\ ReturnedTo(p) = {} => ms = <<>>]_vars

\* With the syntactic check turned off, a pass has published the one semantic
\* marker of a text that has a syntactic and a semantic diagnostic.
MarkerReplacementWitness ==
    \E d \in Docs :
        /\ open[d] /\ ~Disposed
        /\ config.noSyntaxValidation /\ ~config.noSemanticValidation
        /\ content[d] = <<"(", NL, "x">>
        /\ Len(markers[d]) = 1
        /\ markers[d][1].message = "semantic"
        /\ InFlight(passes, d) = 0

\* The markers of the text under the configuration: the converted diagnostics
\* of the kinds that are not turned off.
MarkersOf(text, cfg) ==
    LET syn == getSyntacticDiagnostics(text)
        sem == getSemanticDiagnostics(text)
    IN {_convertDiagnostics(text, d) :
           d \in (IF cfg.noSyntaxValidation THEN {}
                  ELSE {syn[k] : k \in 1..Len(syn)})
                 \cup (IF cfg.noSemanticValidation THEN {}
                       ELSE {sem[k] : k \in 1..Len(sem)})}

\* The document is tracked, its debounce timer has fired and every validation
\* request made for it has resolved.
Settled(opn, lst, ts, B, d) ==
    /\ opn[d] /\ lst[d]
    /\ PendingTimers(ts, d) = {}
    /\ InFlight(B, d) = 0

\* C12 (diagnostics self-heal): once the content changes of an open document
\* have stopped, its debounce timer has fired and every validation request in
\* flight has resolved, in whatever order the responses arrived, the published
\* markers are the diagnostics of the final content: a stale publish of an
\* earlier pass is never the last one.  (Stated for the last response of a
\* document that stayed open and for whichever configuration its pass read,
\* so that only the content can make it fail.)
SelfHeal ==
    [][\A p \in BagToSet(passes) :
           (/\ Completes(p)
            /\ p.doc \in PublishedBy(p)
            /\ ~p.closedSince
            /\ Settled(open', _listener', timers', passes', p.doc)) =>
               \E c \in Configs :
                   {markers'[p.doc][k] : k \in 1..Len(markers'[p.doc])} =
                       MarkersOf(content'[p.doc], c)]_vars

\* C23 (no publish after disposal): once dispose() has returned the manager
\* publishes no markers for any document, not even from a validation pass that
\* was in flight when dispose() was called and whose document is still open.
NoPublishAfterDispose ==
    [][Disposed =>
          /\ markers' = markers
          /\ \A p \in BagToSet(passes) :
                 Completes(p) => PublishedBy(p) = {}
      ]_vars

\* C24 (language scoping): a validation pass is started only for a document
\* whose language is the selector, and no markers are published to a document
\* whose current language differs from the selector, also when the language
\* was changed away while a pass for the document was in flight.
LanguageScoping ==
    [][\A d \in Docs :
          /\ AwaitingWorker(passes', d) > AwaitingWorker(passes, d)
                 => lang'[d] = Selector
          /\ \A p \in BagToSet(passes) :
                 (p.doc = d /\ Completes(p) /\ d \in PublishedBy(p))
                     => lang[d] = Selector
      ]_vars

\* C22 (listener registry): before disposal the registry _listener holds an
\* entry for exactly the open documents whose language is the selector, every
\* document has at most one content-change subscription and at most one
\* pending debounce timer, and none of either without a registry entry.
ListenerRegistry ==
    ~Disposed =>
        \A d \in Docs :
            /\ _listener[d] <=> (open[d] /\ lang[d] = Selector)
            /\ subs[d] = IF _listener[d] THEN 1 ELSE 0
            /\ Cardinality(PendingTimers(timers, d)) <= 1
            /\ PendingTimers(timers, d) # {} => _listener[d]

\* a.ts is open in another language and has no entry, lib.d.ts has its entry
\* and its one subscription.
ListenerRegistryWitness ==
    /\ ~Disposed
    /\ open["a.ts"] /\ lang["a.ts"] = "plaintext" /\ ~_listener["a.ts"]
    /\ subs["a.ts"] = 0
    /\ open["lib.d.ts"] /\ _listener["lib.d.ts"] /\ subs["lib.d.ts"] = 1

(***************************************************************************)
(* OutlineAdapter.provideDocumentSymbols                                   *)
(***************************************************************************)
MaxNodes == 5           \* nodes of a navigation tree
Undefined == "undefined"
NodeNames == <<"Module", "Class", "method1", "method2", "field", "other">>
NodeKinds == <<"module", "class", "method", "method", "property", "alias">>
OutlineTexts == {<<"a", "b", "c", "d", "e", "f", "g">>,
                 <<"a", NL, "c", "d", NL, "f", "g">>}

\* The navigation trees of n nodes: node i hangs under par[i] < i (0: a root),
\* children in index order.
ParentVectors(n) == {par \in [1..n -> 0..n] : \A i \in 1..n : par[i] < i}

ChildrenOf(par, i) ==
    SelectSeq([k \in 1..Len(par) |-> k], LAMBDA k : par[k] = i)

\* The ts.NavigationBarItem of node i.
RECURSIVE NavigationBarItem(_, _)
NavigationBarItem(par, i) ==
    LET cs == ChildrenOf(par, i)
    IN [text |-> NodeNames[i], kind |-> NodeKinds[i],
        spans |-> <<[start |-> i - 1, length |-> 1]>>,
        childItems |-> [k \in 1..Len(cs) |-> NavigationBarItem(par, cs[k])]]

getNavigationBarItems(par) ==
    LET rs == ChildrenOf(par, 0)
    IN [k \in 1..Len(rs) |-> NavigationBarItem(par, rs[k])]

\* outlineTypeTable[item.kind] || monaco.languages.SymbolKind.Variable
outlineTypeTable(kind) ==
    CASE kind = "module" -> "Module"
      [] kind = "class" -> "Class"
      [] kind = "enum" -> "Enum"
      [] kind = "interface" -> "Interface"
      [] kind = "method" -> "Method"
      [] kind \in {"property", "getter", "setter"} -> "Property"
      [] kind \in {"var", "const", "local var"} -> "Variable"
      [] kind \in {"function", "local function"} -> "Function"
      [] OTHER -> "Variable"

RECURSIVE convert(_, _, _, _)
RECURSIVE convertChildren(_, _, _, _, _)

symbolInformation(item, containerLabel, text) ==
    [name |-> item.text,
     kind |-> outlineTypeTable(item.kind),
     location |-> [uri |-> "a.ts",
                   range |-> _textSpanToRange(text, item.spans[1])],
     containerName |-> containerLabel]

convert_rootLabel(bucket, item, containerLabel, text) ==
    LET result == symbolInformation(item, containerLabel, text)
    IN Append(convertChildren(bucket, item.childItems, 1,
                              IF containerLabel = Undefined THEN result.name
                              ELSE containerLabel, text),
              result)

convert_pre(bucket, item, containerLabel, text) ==
    LET result == symbolInformation(item, containerLabel, text)
    IN convertChildren(Append(bucket, result), item.childItems, 1,
                       result.name, text)

\* const convert = (bucket, item, containerLabel?) => { ... }
convert(bucket, item, containerLabel, text) ==
    LET result == symbolInformation(item, containerLabel, text)
    IN Append(convertChildren(bucket, item.childItems, 1, result.name, text),
              result)

\* for (let child of item.childItems) { convert(bucket, child, result.name) }
convertChildren(bucket, items, k, containerLabel, text) ==
    IF k > Len(items) THEN bucket
    ELSE convertChildren(convert(bucket, items[k], containerLabel, text),
                         items, k + 1, containerLabel, text)

\* What a provider hands back: a value, or undefined.
NoResult == [defined |-> FALSE]
Result(v) == [defined |-> TRUE, value |-> v]
\* What the language service hands back: a value, or null/undefined.
NoAnswer == [some |-> FALSE]
Answer(v) == [some |-> TRUE, value |-> v]

\* The then-callback of provideDocumentSymbols.
provideDocumentSymbols(items, text) ==
    IF ~items.some THEN NoResult
    ELSE Result(convertChildren(<<>>, items.value, 1, Undefined, text))

InitQuiet ==
    /\ open = [d \in Docs |-> d \in Editable]
    /\ lang = [d \in Docs |-> IF d \in Editable THEN Selector ELSE "none"]
    /\ config = [noSyntaxValidation |-> FALSE, noSemanticValidation |-> FALSE]
    /\ _disposables = <<>>
    /\ _listener = Blank.listener
    /\ subs = Blank.subs
    /\ handle = Blank.handle
    /\ timers = Blank.timers
    /\ passes = Blank.passes
    /\ markers = Blank.markers
    /\ sinceChange = [d \in Docs |-> QuietPeriod]
    /\ burstN = NoStarts
    /\ burstPasses = NoStarts

InitOutline ==
    /\ InitQuiet
    /\ \E t \in OutlineTexts :
          content = [d \in Docs |-> IF d \in Editable THEN t ELSE NoText]
    /\ call = NoCall

\* The host asks for the outline of a.ts.
OutlineRequest ==
    /\ call.op = "none"
    /\ call' = [op |-> "outline", pc |-> "pending"]
    /\ UNCHANGED diagVars

\* The worker answers getNavigationBarItems and the then-callback runs.
OutlineAnswer(n, par) ==
    /\ call.op = "outline" /\ call.pc = "pending"
    /\ call' = [op |-> "outline", pc |-> "done", par |-> par,
                result |-> provideDocumentSymbols(Answer(getNavigationBarItems(par)),
                                            content["a.ts"])]
    /\ UNCHANGED diagVars

OutlineNoAnswer ==
    /\ call.op = "outline" /\ call.pc = "pending"
    /\ call' = [op |-> "outline", pc |-> "done", par |-> <<>>,
                result |-> provideDocumentSymbols(NoAnswer, content["a.ts"])]
    /\ UNCHANGED diagVars

NextOutline ==
    \/ OutlineRequest
    \/ \E n \in 0..MaxNodes : \E par \in ParentVectors(n) : OutlineAnswer(n, par)
    \/ OutlineNoAnswer

SpecOutline == InitOutline /\ [][NextOutline]_vars

OutlineDone == call.op = "outline" /\ call.pc = "done" /\ call.result.defined
Outline == call.result.value

\* The place of node i in the flattened outline (0: not there).
PlaceOf(out, i) ==
    LET at == {k \in 1..Len(out) : out[k].name = NodeNames[i]}
    IN IF at = {} THEN 0 ELSE CHOOSE k \in at : TRUE

RECURSIVE IsDescendant(_, _, _)
IsDescendant(par, j, i) ==
    par[j] # 0 /\ (par[j] = i \/ IsDescendant(par, par[j], i))

SiblingsInOrder(par, out) ==
    \A i, j \in 1..Len(par) :
        (par[i] = par[j] /\ i < j) => PlaceOf(out, i) < PlaceOf(out, j)

EachNodeOnce(par, out) ==
    /\ Len(out) = Len(par)
    /\ \A i \in 1..Len(par) : PlaceOf(out, i) # 0

ExampleTree == <<0, 1, 2, 2>>   \* Module{Class{method1, method2}}
NamesOf(out) == [k \in 1..Len(out) |-> out[k].name]

\* C4 as claimed (pre-order): every node comes before all of its descendants,
\* siblings in service order; Module{Class{method1, method2}} gives
\* [Module, Class, method1, method2].
OutlinePreOrder ==
    OutlineDone =>
        /\ EachNodeOnce(call.par, Outline)
        /\ SiblingsInOrder(call.par, Outline)
        /\ \A i, j \in 1..Len(call.par) :
              IsDescendant(call.par, j, i) =>
                  PlaceOf(Outline, i) < PlaceOf(Outline, j)
        /\ call.par = ExampleTree =>
              NamesOf(Outline) = <<"Module", "Class", "method1", "method2">>

\* C4 as amended (post-order): every node comes after all of its descendants,
\* siblings in service order; Module{Class{method1, method2}} gives
\* [method1, method2, Class, Module].
OutlinePostOrder ==
    OutlineDone =>
        /\ EachNodeOnce(call.par, Outline)
        /\ SiblingsInOrder(call.par, Outline)
        /\ \A i, j \in 1..Len(call.par) :
              IsDescendant(call.par, j, i) =>
                  PlaceOf(Outline, j) < PlaceOf(Outline, i)
        /\ call.par = ExampleTree =>
              NamesOf(Outline) = <<"method1", "method2", "Class", "Module">>

\* The outline of Module{Class{method1, method2}} has been produced.
OutlinePostOrderWitness ==
    /\ OutlineDone
    /\ call.par = ExampleTree
    /\ NamesOf(Outline) = <<"method1", "method2", "Class", "Module">>

\* C20 (outline container names): in the flattened outline every node with a
\* parent in the tree carries its immediate parent's name as containerName (a
\* grandchild never the root's), and every root carries none.
OutlineContainerNames ==
    OutlineDone =>
        \A i \in 1..Len(call.par) :
            /\ PlaceOf(Outline, i) # 0
            /\ Outline[PlaceOf(Outline, i)].containerName =
                   IF call.par[i] = 0 THEN Undefined
                   ELSE NodeNames[call.par[i]]

\* In the outline of Module{Class{method1, method2}} the grandchild method1
\* carries Class and the root carries nothing.
OutlineContainerNamesWitness ==
    /\ OutlineDone
    /\ call.par = ExampleTree
    /\ Outline[1].name = "method1" /\ Outline[1].containerName = "Class"
    /\ Outline[4].name = "Module" /\ Outline[4].containerName = Undefined

(***************************************************************************)
(* SuggestAdapter.provideCompletionItems                                   *)
(* Text is a sequence of characters; a name handed out by the service is a *)
(* sequence of characters or of whole identifiers.                         *)
(***************************************************************************)
MaxLine == 3            \* characters on the line completion is asked on
Alphabet == {"a", "b", ".", " "}
WordChars == {"a", "b"}
Whitespace == {" "}
Lines == UNION {[1..n -> Alphabet] : n \in 0..MaxLine}

exclusionMap_short ==
    {<<"from">>, <<"import">>, <<"delete">>, <<"with">>, <<"await">>,
     <<"try">>, <<"catch">>, <<"finally">>, <<"yield">>, <<"as">>,
     <<"async">>, <<"abstract">>, <<"any">>, <<"undefined">>, <<"throw">>,
     <<"symbol">>, <<"super">>, <<"require">>}

\* this.exclusionMap[...] = 1 of the constructor
exclusionMap ==
    {<<"from">>, <<"import">>, <<"delete">>, <<"with">>, <<"await">>,
     <<"try">>, <<"catch">>, <<"finally">>, <<"yield">>, <<"as">>,
     <<"async">>, <<"abstract">>, <<"any">>, <<"undefined">>, <<"throw">>,
     <<"symbol">>, <<"super">>, <<"require">>, <<"readonly">>}

\* model.getWordUntilPosition(position) on a one-line model: the word that
\* touches the (validated) position, cut at the position.
getWordUntilPosition(line, position) ==
    LET col == IF position.column < 1 THEN 1
               ELSE IF position.column > Len(line) + 1 THEN Len(line) + 1
               ELSE position.column
        starts == {c \in 1..col : \A i \in c..(col - 1) : line[i] \in WordChars}
        ends == {c \in col..(Len(line) + 1) :
                    \A i \in col..(c - 1) : line[i] \in WordChars}
        s == CHOOSE c \in starts : \A o \in starts : c <= o
        e == CHOOSE c \in ends : \A o \in ends : c >= o
    IN IF s = e THEN [word |-> <<>>, startColumn |-> col, endColumn |-> col]
       ELSE [word |-> SubSeq(line, s, col - 1), startColumn |-> s,
             endColumn |-> col]

\* lineContent.substr(position.column - 1).trim() != ""
textAfter(line, position) ==
    \E i \in position.column..Len(line) : line[i] \notin Whitespace

convertKind(kind) ==
    CASE kind \in {"primitive type", "keyword"} -> "Keyword"
      [] kind \in {"var", "local var"} -> "Variable"
      [] kind \in {"property", "getter", "setter"} -> "Field"
      [] kind \in {"function", "method", "construct", "call", "index"}
             -> "Function"
      [] kind = "enum" -> "Enum"
      [] kind = "module" -> "Module"
      [] kind = "class" -> "Class"
      [] kind = "interface" -> "Interface"
      [] kind = "warning" -> "File"
      [] OTHER -> "Property"

\* What provideCompletionItems computes before it asks the worker.
completionContext(line, position) ==
    LET wordInfo == getWordUntilPosition(line, position)
        prevWordInfo ==
            getWordUntilPosition(line, [lineNumber |-> position.lineNumber,
                                        column |-> wordInfo.startColumn - 1])
    IN [position |-> position,
        offset |-> _positionToOffset(line, position),
        wordInfo |-> wordInfo,
        prevWordInfo |-> prevWordInfo,
        isNamespace |-> prevWordInfo.word # <<>>,
        skipCodeSnippet |-> textAfter(line, position)]

qualifier(cx, entry) ==
    IF cx.isNamespace THEN cx.prevWordInfo.word \o <<".">>
    ELSE IF entry.containerName # <<>> THEN entry.containerName \o <<".">>
    ELSE <<>>

convertNavigateToItem_wordOnly(cx, entry) ==
    [uri |-> "a.ts",
     position |-> cx.position,
     label |-> IF entry.containerName # <<>>
               THEN entry.containerName \o <<".">> \o entry.name
               ELSE entry.name,
     name |-> entry.name,
     sortText |-> entry.name,
     filterText |-> qualifier(cx, entry) \o entry.name,
     kind |-> convertKind(entry.kind),
     containerName |-> entry.containerName,
     navigation |-> entry,
     skipCodeSnippet |-> cx.skipCodeSnippet,
     insertText |-> [value |-> qualifier(cx, entry) \o entry.name],
     range |-> [startLineNumber |-> cx.position.lineNumber,
                startColumn |-> cx.position.column - Len(cx.wordInfo.word),
                endLineNumber |-> cx.position.lineNumber,
                endColumn |-> cx.position.column]]

\* function convert(bucket, entry) of the getNavigateToItems callback: the
\* candidate pushed for one fuzzy-symbol entry.
convertNavigateToItem(cx, entry) ==
    [uri |-> "a.ts",
     position |-> cx.position,
     label |-> IF entry.containerName # <<>>
               THEN entry.containerName \o <<".">> \o entry.name
               ELSE entry.name,
     name |-> entry.name,
     sortText |-> entry.name,
     filterText |-> qualifier(cx, entry) \o entry.name,
     kind |-> convertKind(entry.kind),
     containerName |-> entry.containerName,
     navigation |-> entry,
     skipCodeSnippet |-> cx.skipCodeSnippet,
     insertText |-> [value |-> qualifier(cx, entry) \o entry.name],
     range |-> [startLineNumber |-> cx.position.lineNumber,
                startColumn |->
                    cx.position.column - Len(cx.wordInfo.word)
                    - (IF cx.isNamespace
                       THEN Len(cx.prevWordInfo.word) + 1 ELSE 0),
                endLineNumber |-> cx.position.lineNumber,
                endColumn |-> cx.position.column]]

navigationFilter_anyContainer(cx, item) ==
    item.kind = "function" /\ item.kindModifiers # ""

\* navigation.filter(...) of the getNavigateToItems callback
navigationFilter(cx, item) ==
    /\ item.kind = "function" /\ item.kindModifiers # ""
    /\ (cx.isNamespace => item.containerName # cx.prevWordInfo.word)

\* The getNavigateToItems callback: the fuzzy-symbol candidates.
moreinfo(cx, navigation) ==
    IF ~navigation.some \/ navigation.value = <<>> THEN <<>>
    ELSE LET kept == SelectSeq(navigation.value,
                               LAMBDA item : navigationFilter(cx, item))
         IN [k \in 1..Len(kept) |-> convertNavigateToItem(cx, kept[k])]

\* The candidate made of one direct completion entry.
suggestion(cx, entry) ==
    [uri |-> "a.ts",
     position |-> cx.position,
     label |-> entry.name,
     name |-> entry.name,
     sortText |-> entry.sortText,
     kind |-> convertKind(entry.kind),
     skipCodeSnippet |-> cx.skipCodeSnippet]

provideCompletionItems_fuzzyFirst(cx, info, navigation) ==
    IF ~info.some THEN NoResult
    ELSE LET kept == SelectSeq(info.value.entries,
                               LAMBDA entry : entry.name \notin exclusionMap)
             suggestions == [k \in 1..Len(kept) |-> suggestion(cx, kept[k])]
         IN Result(moreinfo(cx, navigation) \o suggestions)

\* The last then-callback of provideCompletionItems.
provideCompletionItems(cx, info, navigation) ==
    IF ~info.some THEN NoResult
    ELSE LET kept == SelectSeq(info.value.entries,
                               LAMBDA entry : entry.name \notin exclusionMap)
             suggestions == [k \in 1..Len(kept) |-> suggestion(cx, kept[k])]
         IN Result(suggestions \o moreinfo(cx, navigation))

CompletionEntry(name, kind) == [name |-> name, sortText |-> "0", kind |-> kind]
NavigateToItem(name, container, kind, modifiers) ==
    [name |-> name, containerName |-> container, kind |-> kind,
     kindModifiers |-> modifiers, fileName |-> "lib.d.ts",
     textSpan |-> [start |-> 0, length |-> 1]]

\* The keywords the service offers among its completions.
Keywords ==
    <<"from", "import", "delete", "with", "await", "try", "catch", "finally",
      "yield", "as", "async", "abstract", "any", "undefined", "throw",
      "symbol", "super", "require", "readonly", "return", "typeof", "for",
      "if", "while">>

\* Answers of worker.getCompletionsAtPosition
CompletionInfos ==
    {NoAnswer,
     Answer([entries |->
                [k \in 1..Len(Keywords) |->
                    CompletionEntry(<<Keywords[k]>>, "keyword")]]),
     Answer([entries |-> <<>>]),
     Answer([entries |-> <<CompletionEntry(<<"foo">>, "function")>>]),
     Answer([entries |-> <<CompletionEntry(<<"from">>, "keyword"),
                           CompletionEntry(<<"b">>, "var"),
                           CompletionEntry(<<"any">>, "keyword"),
                           CompletionEntry(<<"a">>, "module")>>])}

\* Answers of worker.getNavigateToItems
NavigateToItems ==
    {NoAnswer,
     Answer(<<>>),
     Answer(<<NavigateToItem(<<"b", "a">>, <<"a">>, "function", "export"),
              NavigateToItem(<<"a", "b">>, <<>>, "function", "export")>>),
     Answer(<<NavigateToItem(<<"b">>, <<"b">>, "function", "export"),
              NavigateToItem(<<"a">>, <<"a">>, "function", ""),
              NavigateToItem(<<"a", "a">>, <<"b">>, "var", "export"),
              NavigateToItem(<<"a">>, <<"a">>, "function", "declare")>>),
     Answer(<<NavigateToItem(<<"if">>, <<>>, "function", "export"),
              NavigateToItem(<<"if">>, <<"a">>, "function", "export")>>)}

InitSuggest ==
    /\ InitQuiet
    /\ \E t \in Lines :
          content = [d \in Docs |-> IF d \in Editable THEN t ELSE NoText]
    /\ call = NoCall

\* The host asks for completions at a column of the line of a.ts.
SuggestRequest(column) ==
    /\ call.op = "none"
    /\ column <= Len(content["a.ts"]) + 1
    /\ call' = [op |-> "suggest", pc |-> "pending", line |-> content["a.ts"],
                cx |-> completionContext(content["a.ts"],
                                         [lineNumber |-> 1, column |-> column])]
    /\ UNCHANGED diagVars

\* Both worker requests are answered and the merge runs.
SuggestAnswer(info, navigation) ==
    /\ call.op = "suggest" /\ call.pc = "pending"
    /\ call' = [call EXCEPT !.pc = "done"] @@
               [info |-> info, navigation |-> navigation,
                result |-> provideCompletionItems(call.cx, info, navigation)]
    /\ UNCHANGED diagVars

NextSuggest ==
    \/ \E column \in 1..(MaxLine + 1) : SuggestRequest(column)
    \/ \E info \in CompletionInfos, navigation \in NavigateToItems :
          SuggestAnswer(info, navigation)

SpecSuggest == InitSuggest /\ [][NextSuggest]_vars

SuggestDone == call.op = "suggest" /\ call.pc = "done" /\ call.result.defined
Suggestions == call.result.value
IsFuzzy(c) == "navigation" \in DOMAIN c

\* The first column of the run of word characters that ends before `column`.
IdentifierStart(line, column) ==
    LET starts == {c \in 1..column :
                      \A i \in c..(column - 1) : line[i] \in WordChars}
    IN CHOOSE c \in starts : \A o \in starts : c <= o

\* The first column of the identifier being typed, or of the qualifier when a
\* word ends one separator before that identifier.
ReplaceStart(line, column) ==
    LET s == IdentifierStart(line, column)
    IN IF s >= 3 /\ line[s - 2] \in WordChars
       THEN IdentifierStart(line, s - 1) ELSE s

ReplaceRange(line, column) ==
    [startLineNumber |-> 1, startColumn |-> ReplaceStart(line, column),
     endLineNumber |-> 1, endColumn |-> column]

\* C5 as claimed: every candidate of the returned list, direct and
\* fuzzy-symbol alike, carries the replacement range that ends at the cursor
\* and starts at the identifier being typed or at its qualifier.
EveryCandidateHasRange ==
    SuggestDone =>
        \A k \in 1..Len(Suggestions) :
            /\ "range" \in DOMAIN Suggestions[k]
            /\ Suggestions[k].range =
                   ReplaceRange(content["a.ts"], call.cx.position.column)

\* C5 as amended: every fuzzy-symbol candidate carries that replacement range
\* (start column = cursor column - length of the typed word - (length of the
\* qualifier + 1) in namespace context); a direct candidate carries no range.
FuzzyCandidatesHaveRange ==
    SuggestDone =>
        \A k \in 1..Len(Suggestions) :
            IF IsFuzzy(Suggestions[k])
            THEN /\ Suggestions[k].range =
                        ReplaceRange(content["a.ts"], call.cx.position.column)
                 /\ Suggestions[k].range.startColumn =
                        call.cx.position.column - Len(call.cx.wordInfo.word)
                        - (IF call.cx.isNamespace
                           THEN Len(call.cx.prevWordInfo.word) + 1 ELSE 0)
            ELSE "range" \notin DOMAIN Suggestions[k]

\* A list with a direct and a fuzzy-symbol candidate, asked for after "a.b".
FuzzyCandidatesHaveRangeWitness ==
    /\ SuggestDone
    /\ content["a.ts"] = <<"a", ".", "b">>
    /\ call.cx.position.column = 4
    /\ call.cx.isNamespace
    /\ \E k \in 1..Len(Suggestions) : IsFuzzy(Suggestions[k])
    /\ \E k \in 1..Len(Suggestions) : ~IsFuzzy(Suggestions[k])

\* The Exclusion Set.
ExclusionSet ==
    {<<w>> : w \in {"from", "import", "delete", "with", "await", "try",
                    "catch", "finally", "yield", "as", "async", "abstract",
                    "any", "undefined", "throw", "symbol", "super", "require",
                    "readonly"}}

Direct == SelectSeq(Suggestions, LAMBDA c : ~IsFuzzy(c))
Fuzzy == SelectSeq(Suggestions, LAMBDA c : IsFuzzy(c))
NameSeq(cs) == [k \in 1..Len(cs) |-> cs[k].name]

\* The direct entries outside the Exclusion Set, in service order.
DirectSurvivors ==
    SelectSeq(call.info.value.entries, LAMBDA e : e.name \notin ExclusionSet)

\* C15 (exclusion filtering): of a direct-completion response, no entry whose
\* name is in the Exclusion Set is in the returned list, and every entry
\* whose name is not in the set is.
ExclusionFiltering ==
    SuggestDone =>
        /\ \A k \in 1..Len(Direct) : Direct[k].name \notin ExclusionSet
        /\ \A k \in 1..Len(call.info.value.entries) :
              LET e == call.info.value.entries[k]
              IN e.name \notin ExclusionSet =>
                    \E j \in 1..Len(Direct) :
                        /\ Direct[j].name = e.name
                        /\ Direct[j].label = e.name
        /\ Len(Direct) = Len(DirectSurvivors)

\* The service offered every keyword: the nineteen of the set are gone, the
\* others are in the list.
ExclusionFilteringWitness ==
    /\ SuggestDone
    /\ Len(call.info.value.entries) = Len(Keywords)
    /\ NameSeq(Direct) =
          << <<"return">>, <<"typeof">>, <<"for">>, <<"if">>, <<"while">> >>

\* The word that ends one character before the identifier being typed.
PrevWord(line, column) ==
    LET s == IdentifierStart(line, column)
    IN IF s >= 3 /\ line[s - 2] \in WordChars
       THEN SubSeq(line, IdentifierStart(line, s - 1), s - 2) ELSE <<>>

\* The fuzzy-symbol entries that are functions with kind modifiers, in
\* service order.
FunctionItems ==
    IF call.navigation.some
    THEN SelectSeq(call.navigation.value,
                   LAMBDA i : i.kind = "function" /\ i.kindModifiers # "")
    ELSE <<>>

\* C16 (namespace dedup): in namespace context (a non-empty prevWord before
\* the typed word) no fuzzy-symbol candidate whose container is prevWord is in
\* the returned list; outside namespace context the container does not
\* filter the fuzzy candidates.
NamespaceDedup ==
    SuggestDone =>
        LET prevWord == PrevWord(content["a.ts"], call.cx.position.column)
        IN IF prevWord # <<>>
           THEN /\ \A k \in 1..Len(Fuzzy) :
                      Fuzzy[k].containerName # prevWord
                /\ NameSeq(Fuzzy) =
                      NameSeq(SelectSeq(FunctionItems,
                                  LAMBDA i : i.containerName # prevWord))
           ELSE NameSeq(Fuzzy) = NameSeq(FunctionItems)

\* After "a." the function of container a is dropped and that of container b
\* is kept.
NamespaceDedupWitness ==
    /\ SuggestDone
    /\ content["a.ts"] = <<"a", ".">>
    /\ call.cx.position.column = 3
    /\ Len(FunctionItems) = 2
    /\ Len(Fuzzy) = 1
    /\ Fuzzy[1].containerName = <<"b">>

\* C18 (merge order): the returned list is the surviving direct candidates in
\* service order followed by the surviving fuzzy-symbol candidates in
\* service order, neither re-sorted nor interleaved.
MergeOrder ==
    SuggestDone =>
        LET prevWord == PrevWord(content["a.ts"], call.cx.position.column)
            fuzzySurvivors ==
                SelectSeq(FunctionItems,
                          LAMBDA i : prevWord # <<>> =>
                                        i.containerName # prevWord)
        IN /\ Suggestions = Direct \o Fuzzy
           /\ NameSeq(Suggestions) =
                  NameSeq(DirectSurvivors) \o NameSeq(fuzzySurvivors)

\* A list of two direct candidates followed by two fuzzy-symbol candidates.
MergeOrderWitness ==
    /\ SuggestDone
    /\ Len(Direct) = 2 /\ Len(Fuzzy) = 2
    /\ NameSeq(Suggestions) =
          << <<"b">>, <<"a">>, <<"b", "a">>, <<"a", "b">> >>

(***************************************************************************)
(* QuickInfoAdapter.provideHover                                           *)
(***************************************************************************)
MaxParams == 2          \* parameters of the first overload
MaxArgs == 2            \* argumentIndex and argumentCount of the answer
\* The argument lists hovered over.
HoverTexts == {<<"a", ",", "a">>, <<"a", ",", "b">>, <<"a", "b", ",">>,
               <<",", "a", ",", "a">>, <<"b", "a">>}

\* A rejected promise: the callback threw.
Thrown == [defined |-> FALSE, thrown |-> "TypeError"]

\* ts.displayPartsToString: the texts of the parts, joined.
RECURSIVE displayPartsToString(_)
displayPartsToString(parts) ==
    IF parts = <<>> THEN <<>>
    ELSE Head(parts).text \o displayPartsToString(Tail(parts))

\* String.prototype.substr(start, length)
substr(str, start, length) ==
    IF start >= Len(str) \/ length <= 0 THEN <<>>
    ELSE SubSeq(str, start + 1, Min(Len(str), start + length))

\* String.prototype.split(','): the pieces between the commas.
RECURSIVE split(_)
split(str) ==
    LET commas == {i \in 1..Len(str) : str[i] = ","}
    IN IF commas = {} THEN <<str>>
       ELSE LET i == CHOOSE c \in commas : \A o \in commas : c <= o
            IN <<SubSeq(str, 1, i - 1)>> \o split(SubSeq(str, i + 1, Len(str)))

\* String.prototype.indexOf(piece): the first place piece occurs at, or -1.
indexOf(str, piece) ==
    LET at == {i \in 0..(Len(str) - Len(piece)) :
                  SubSeq(str, i + 1, i + Len(piece)) = piece}
    IN IF at = {} THEN -1 ELSE CHOOSE i \in at : \A o \in at : i <= o

\* model.getWordAtPosition(position) is not null
wordAtPosition(text, position) ==
    \/ position.column <= Len(text) /\ text[position.column] \in WordChars
    \/ position.column >= 2 /\ text[position.column - 1] \in WordChars

hoverOfInfo(text, info, contents) ==
    Result([range |-> _textSpanToRange(text, info.textSpan),
            contents |-> <<contents>>])

\* The signature-help branch for an overload with parameters.
hoverOfSignature(text, signature) ==
    LET parameters == signature.items[1].parameters
        activeParameter == signature.argumentIndex
        documentation ==
            displayPartsToString(parameters[activeParameter + 1].documentation)
        contents ==
            IF documentation = <<>>
            THEN displayPartsToString(parameters[activeParameter + 1].displayParts)
            ELSE documentation
        parametersStr == substr(text, signature.applicableSpan.start,
                                signature.applicableSpan.length)
        parametersSplit == split(parametersStr)
    IN IF activeParameter + 1 > Len(parameters) THEN Thrown
       ELSE IF signature.argumentCount > 1
       THEN IF activeParameter + 1 > Len(parametersSplit) THEN Thrown
            ELSE Result(
                   [range |-> _textSpanToRange(text,
                       [start |-> signature.applicableSpan.start
                                  + indexOf(parametersStr,
                                            parametersSplit[activeParameter + 1]),
                        length |-> Len(parametersSplit[activeParameter + 1])]),
                    contents |-> <<contents>>])
       ELSE Result([range |-> _textSpanToRange(text, signature.applicableSpan),
                    contents |-> <<contents>>])

\* The last then-callback of provideHover.
provideHover(text, info, signature, completion) ==
    IF info.some /\ completion.some
    THEN LET documentation == displayPartsToString(completion.value.documentation)
         IN hoverOfInfo(text, info.value,
                        IF documentation = <<>>
                        THEN displayPartsToString(info.value.displayParts)
                        ELSE documentation)
    ELSE IF signature.some /\ signature.value.items # <<>>
    THEN IF Len(signature.value.items[1].parameters) > 0
         THEN hoverOfSignature(text, signature.value)
         ELSE NoResult
    ELSE IF info.some
    THEN hoverOfInfo(text, info.value,
                     displayPartsToString(info.value.displayParts))
    ELSE NoResult

Part(t) == [text |-> <<t>>]

\* Answers of worker.getQuickInfoAtPosition
QuickInfos ==
    {NoAnswer,
     Answer([displayParts |-> <<Part("q"), Part("i")>>,
             textSpan |-> [start |-> 1, length |-> 1]])}

\* Answers of worker.getCompletionEntryDetails
CompletionDetails ==
    {NoAnswer,
     Answer([documentation |-> <<>>]),
     Answer([documentation |-> <<Part("c")>>])}

Parameters ==
    {[documentation |-> <<>>, displayParts |-> <<Part("p")>>],
     [documentation |-> <<Part("d")>>, displayParts |-> <<Part("p")>>]}

\* Answers of worker.getSignatureHelpItems for the text
SignatureHelpItems(text) ==
    {NoAnswer} \cup
    {Answer([items |-> <<>>, argumentIndex |-> 0, argumentCount |-> 0,
             applicableSpan |-> [start |-> 0, length |-> Len(text)]])} \cup
    {Answer([items |-> <<[parameters |-> ps]>>,
             argumentIndex |-> ai, argumentCount |-> ac,
             applicableSpan |-> [start |-> st, length |-> Len(text) - st]]) :
        ps \in UNION {[1..n -> Parameters] : n \in 0..MaxParams},
        ai \in 0..MaxArgs, ac \in 0..MaxArgs, st \in 0..1}

InitHover ==
    /\ InitQuiet
    /\ \E t \in HoverTexts :
          content = [d \in Docs |-> IF d \in Editable THEN t ELSE NoText]
    /\ call = NoCall

\* The host asks for the hover at a column of a.ts.
HoverRequest(column) ==
    /\ call.op = "none"
    /\ call' = [op |-> "hover", pc |-> "pending",
                wordInfo |-> wordAtPosition(content["a.ts"],
                                            [lineNumber |-> 1, column |-> column])]
    /\ UNCHANGED diagVars

\* The joined worker requests are answered and the callback runs; completion
\* details are asked for only when there is a word at the position.
HoverAnswer(info, signature, completion) ==
    /\ call.op = "hover" /\ call.pc = "pending"
    /\ ~call.wordInfo => completion = NoAnswer
    /\ call' = [op |-> "hover", pc |-> "done", wordInfo |-> call.wordInfo,
                info |-> info, signature |-> signature,
                completion |-> completion,
                result |-> provideHover(content["a.ts"], info, signature,
                                        completion)]
    /\ UNCHANGED diagVars

NextHover ==
    \/ \E column \in 1..(Len(content["a.ts"]) + 1) : HoverRequest(column)
    \/ \E info \in QuickInfos, completion \in CompletionDetails :
          \E signature \in SignatureHelpItems(content["a.ts"]) :
              HoverAnswer(info, signature, completion)

SpecHover == InitHover /\ [][NextHover]_vars

HoverDone == call.op = "hover" /\ call.pc = "done"

\* The answer has a first overload with at least one parameter.
OffersParameter(signature) ==
    /\ signature.some
    /\ signature.value.items # <<>>
    /\ Len(signature.value.items[1].parameters) > 0

\* C6 hover precedence fall-through: no result is returned only when
\* quick-info is absent and signature-help is absent or offers no parameter;
\* with quick-info present, completion details absent and no overload with a
\* parameter, the hover is quick-info's display text over quick-info's span.
HoverFallThrough ==
    HoverDone =>
        /\ call.result = NoResult =>
              ~call.info.some /\ ~OffersParameter(call.signature)
        /\ (call.info.some /\ ~call.completion.some
                /\ ~OffersParameter(call.signature)) =>
              call.result =
                  Result([range |-> _textSpanToRange(content["a.ts"],
                                                     call.info.value.textSpan),
                          contents |->
                              <<displayPartsToString(call.info.value.displayParts)>>])

\* The start and length of the k-th comma-delimited piece of str.
RECURSIVE PieceStart(_, _)
PieceStart(pieces, k) ==
    IF k <= 1 THEN 0 ELSE PieceStart(pieces, k - 1) + Len(pieces[k - 1]) + 1

\* C7 hover argument narrowing: when the signature-help branch returns and
\* argumentCount > 1, the range covers exactly the active comma-delimited
\* argument of the applicable span: it starts at applicableSpan.start plus the
\* lengths of the preceding arguments and their commas and has the active
\* argument's length.
HoverNarrowsToArgument ==
    (/\ HoverDone
     /\ ~(call.info.some /\ call.completion.some)
     /\ OffersParameter(call.signature)
     /\ call.signature.value.argumentCount > 1
     /\ call.result.defined) =>
        LET sig == call.signature.value
            pieces == split(substr(content["a.ts"], sig.applicableSpan.start,
                                   sig.applicableSpan.length))
        IN call.result.value.range =
               _textSpanToRange(content["a.ts"],
                   [start |-> sig.applicableSpan.start
                              + PieceStart(pieces, sig.argumentIndex + 1),
                    length |-> Len(pieces[sig.argumentIndex + 1])])

\* C25 (hover index safety): whatever argumentIndex, argumentCount, parameter
\* count of the first overload and text in the applicable span signature help
\* answers with, provideHover reads no parameter and no comma-split piece
\* outside its sequence: the call ends with a hover or with none, never with
\* a failure.
HoverIndexSafety ==
    HoverDone => "thrown" \notin DOMAIN call.result

(***************************************************************************)
(* The promise chain of every adapter operation:                           *)
(*   this._worker(resource).then(worker => requests).then(values => shape) *)
(* wired to the host's cancellation token by wireCancellationToken, or,    *)
(* for the validation pass, ended by .done(undefined, console.error).      *)
(***************************************************************************)
Providers == {"provideCompletionItems", "resolveCompletionItem",
              "provideSignatureHelp", "provideHover",
              "provideDocumentHighlights", "provideDefinition",
              "provideReferences", "provideDocumentSymbols",
              "provideDocumentRangeFormattingEdits",
              "provideOnTypeFormattingEdits"}
Operations == Providers \cup {"_doValidate"}

\* What the operation is asked about: a label that is a snippet prefix
\* (resolveCompletionItem), a position with a word under it (provideHover).
Variants == {"plain", "snippet", "word"}
VariantsOf(op) ==
    CASE op = "resolveCompletionItem" -> {"plain", "snippet"}
      [] op = "provideHover" -> {"plain", "word"}
      [] OTHER -> {"plain"}

\* The worker requests the first then-callback of the operation makes.
RequestsOf(op, variant) ==
    CASE op = "provideCompletionItems" ->
            {"getCompletionsAtPosition", "getNavigateToItems"}
      [] op = "resolveCompletionItem" ->
            IF variant = "snippet" THEN {}
            ELSE {"getCompletionEntryDetailsAndSnippet"}
      [] op = "provideSignatureHelp" -> {"getSignatureHelpItems"}
      [] op = "provideHover" ->
            {"getQuickInfoAtPosition", "getSignatureHelpItems"}
            \cup (IF variant = "word" THEN {"getCompletionEntryDetails"}
                  ELSE {})
      [] op = "provideDocumentHighlights" -> {"getOccurrencesAtPosition"}
      [] op = "provideDefinition" -> {"getDefinitionAtPosition"}
      [] op = "provideReferences" -> {"getReferencesAtPosition"}
      [] op = "provideDocumentSymbols" -> {"getNavigationBarItems"}
      [] op = "provideDocumentRangeFormattingEdits" ->
            {"getFormattingEditsForRange"}
      [] op = "provideOnTypeFormattingEdits" ->
            {"getFormattingEditsAfterKeystroke"}
      [] op = "_doValidate" ->
            {"getSyntacticDiagnostics", "getSemanticDiagnostics"}

\* The chain of an operation that has just been called.  promise is the state
\* of the promise the operation hands back; requests maps every request made
\* to "pending", "answered", "rejected", "cancelled" or "late" (answered after
\* it was cancelled).
NewChain(op, variant) ==
    [op |-> op, variant |-> variant, pc |-> "worker", promise |-> "pending",
     wired |-> FALSE, requests |-> <<>>, shaped |-> FALSE, logged |-> FALSE,
     cancelledAt |-> "none", failed |-> FALSE]

wireCancellationToken_unwired(chain) == chain

\* token.onCancellationRequested(() => promise.cancel())
wireCancellationToken(chain) == [chain EXCEPT !.wired = TRUE]

\* The operation is called and returns its promise.
startOperation(op, variant) ==
    IF op = "_doValidate" THEN NewChain(op, variant)
    ELSE IF op = "resolveCompletionItem" /\ variant = "snippet"
    THEN [NewChain(op, variant) EXCEPT !.pc = "done", !.promise = "fulfilled",
                                       !.shaped = TRUE]
    ELSE wireCancellationToken(NewChain(op, variant))

\* The error reaches the end of the chain: .done(undefined, err =>
\* console.error(err)) of the validation pass, the host for a provider.
chainRejected(chain) ==
    IF chain.op = "_doValidate"
    THEN [chain EXCEPT !.pc = "done", !.promise = "handled", !.logged = TRUE,
                       !.failed = TRUE]
    ELSE [chain EXCEPT !.pc = "done", !.promise = "rejected", !.failed = TRUE]

\* Promise.join(promises) settles once every request has: the second
\* then-callback shapes the values, or the error goes down the chain.
joinSettled(chain) ==
    IF \E r \in DOMAIN chain.requests : chain.requests[r] = "rejected"
    THEN chainRejected(chain)
    ELSE [chain EXCEPT !.pc = "done", !.promise = "fulfilled", !.shaped = TRUE]

\* A request has just settled: while another one is pending the join waits;
\* otherwise the chain goes on in the same turn.
requestSettled(chain) ==
    IF /\ chain.pc = "service" /\ chain.promise = "pending"
       /\ \A r \in DOMAIN chain.requests :
              chain.requests[r] \in {"answered", "rejected"}
    THEN joinSettled(chain)
    ELSE chain

\* The token's cancellation is requested: a wired, pending promise is
\* cancelled, and with it whatever it waits for.  A join that already holds
\* the error of one of its requests fails with it once the others are
\* cancelled, and the error goes down the chain.
cancellationRequested(chain) ==
    LET inFlight == chain.promise = "pending"
        c1 == [chain EXCEPT !.cancelledAt = IF inFlight THEN chain.pc ELSE @]
        c2 == [c1 EXCEPT !.requests = [r \in DOMAIN @ |->
                                          IF @[r] = "pending" THEN "cancelled"
                                          ELSE @[r]]]
    IN IF chain.wired /\ inFlight
       THEN IF \E r \in DOMAIN c2.requests : c2.requests[r] = "rejected"
            THEN chainRejected(c2)
            ELSE [c2 EXCEPT !.promise = "cancelled"]
       ELSE c1

InitOps ==
    /\ InitQuiet
    /\ content = [d \in Docs |-> IF d \in Editable THEN <<"a">> ELSE NoText]
    /\ call = NoCall

OpStart(op, variant) ==
    /\ call.op = "none"
    /\ variant \in VariantsOf(op)
    /\ call' = startOperation(op, variant)
    /\ UNCHANGED diagVars

\* this._worker(resource) resolves and the first then-callback makes the
\* requests.
OpWorkerReady ==
    /\ call.op \in Operations
    /\ call.pc = "worker" /\ call.promise = "pending"
    /\ call' = [call EXCEPT !.pc = "service",
                   !.requests = [r \in RequestsOf(call.op, call.variant) |->
                                    "pending"]]
    /\ UNCHANGED diagVars

\* this._worker(resource) is rejected.
OpWorkerFails ==
    /\ call.op \in Operations
    /\ call.pc = "worker" /\ call.promise = "pending"
    /\ call' = chainRejected(call)
    /\ UNCHANGED diagVars

\* The worker answers a request, also one that was cancelled meanwhile; with
\* the last answer the chain goes on.
OpRespond(r) ==
    /\ call.op \in Operations
    /\ r \in DOMAIN call.requests
    /\ call.requests[r] \in {"pending", "cancelled"}
    /\ call' = requestSettled([call EXCEPT !.requests[r] =
                                  IF @ = "pending" THEN "answered" ELSE "late"])
    /\ UNCHANGED diagVars

\* The worker rejects a request; the error goes down the chain once no other
\* request is pending.
OpReject(r) ==
    /\ call.op \in Operations
    /\ r \in DOMAIN call.requests
    /\ call.requests[r] = "pending"
    /\ call' = requestSettled([call EXCEPT !.requests[r] = "rejected"])
    /\ UNCHANGED diagVars

\* The host requests cancellation through the token it passed.
OpCancel ==
    /\ call.op \in Providers
    /\ call.cancelledAt = "none"
    /\ call' = cancellationRequested(call)
    /\ call' # call
    /\ UNCHANGED diagVars

\* The requests of the operation in progress.
Requested == IF call.op \in Operations THEN DOMAIN call.requests ELSE {}

NextOps ==
    \/ \E op \in Operations, variant \in Variants : OpStart(op, variant)
    \/ OpWorkerReady
    \/ OpWorkerFails
    \/ \E r \in Requested : OpRespond(r)
    \/ \E r \in Requested : OpReject(r)
    \/ OpCancel

SpecOps == InitOps /\ [][NextOps]_vars

InOperation == call.op \in Operations

\* C13 (cancellation): once cancellation is requested while a provider
\* operation is in flight, the cancellation has reached every request still
\* pending, and no result is shaped or delivered afterwards, also when a
\* response still arrives: the promise ends cancelled, or rejected with the
\* error of a request that had failed before the cancellation.
CancelStops ==
    (InOperation /\ call.cancelledAt # "none") =>
        /\ call.promise \in {"cancelled", "rejected"}
        /\ call.promise = "rejected" =>
               \E r \in DOMAIN call.requests : call.requests[r] = "rejected"
        /\ ~call.shaped
        /\ \A r \in DOMAIN call.requests : call.requests[r] # "pending"

\* Completion was cancelled while its two requests were pending, and one of
\* them was answered all the same.
CancelStopsWitness ==
    /\ InOperation
    /\ call.op = "provideCompletionItems"
    /\ call.cancelledAt = "service"
    /\ call.requests["getCompletionsAtPosition"] = "late"
    /\ call.requests["getNavigateToItems"] = "cancelled"

\* C14 (service failure): when a service request of an adapter operation is
\* rejected, the error is logged and the operation ends with no result; the
\* rejection never reaches the host as a failure of the operation.
FailureContained ==
    (InOperation /\ call.failed) =>
        /\ call.logged
        /\ call.promise # "rejected"
        /\ ~call.shaped

(***************************************************************************)
(* SuggestAdapter.resolveCompletionItem                                    *)
(***************************************************************************)
snippets ==
    <<[prefix |-> <<"for">>,
       body |-> <<"for (let ${1:index} = 0; ${1:index} < 4; ${1:index}++) {",
                  "\t$0",
                  "}">>,
       description |-> "For Loop"],
      [prefix |-> <<"if">>,
       body |-> <<"if (${1:condition}) {", "\t$0", "}">>,
       description |-> "If Statement"],
      [prefix |-> <<"while">>,
       body |-> <<"while (${1:condition}) {", "\t$0", "}">>,
       description |-> "While Statement"]>>

RECURSIVE join_concat(_, _)
join_concat(parts, sep) ==
    IF parts = <<>> THEN <<>>
    ELSE <<Head(parts)>> \o join_concat(Tail(parts), sep)

\* Array.prototype.join(sep)
RECURSIVE join(_, _)
join(parts, sep) ==
    IF parts = <<>> THEN <<>>
    ELSE IF Len(parts) = 1 THEN <<Head(parts)>>
    ELSE <<Head(parts), sep>> \o join(Tail(parts), sep)

\* this.typescriptSnippets, as the constructor fills it
typescriptSnippets ==
    [k \in 1..Len(snippets) |->
        [prefix |-> snippets[k].prefix,
         body |-> join(snippets[k].body, NL),
         description |-> snippets[k].description]]

\* myItem.<name> = v
SetField(item, name, v) ==
    [f \in DOMAIN item \cup {name} |-> IF f = name THEN v ELSE item[f]]

Null == [null |-> TRUE]

\* worker.getCompletionEntryDetailsAndSnippet(...) as resolveCompletionItem
\* asks it for the item.
detailsRequest(line, item) ==
    IF "navigation" \in DOMAIN item
    THEN [fileName |-> item.navigation.fileName,
          position |-> item.navigation.textSpan.start,
          name |-> item.name, label |-> item.label]
    ELSE [fileName |-> "a.ts",
          position |-> _positionToOffset(line, item.position),
          name |-> item.name, label |-> item.label]

\* resolveCompletionItem up to its return: the snippet branch resolves at
\* once, the other one waits for this._worker(resource) and has made no
\* request yet.
resolveCompletionItem(item) ==
    LET entry == SelectSeq(typescriptSnippets,
                           LAMBDA snippet : snippet.prefix = item.label)
    IN IF entry # <<>>
       THEN [op |-> "resolve", pc |-> "done", requests |-> <<>>,
             item |-> item,
             result |-> SetField(SetField(item, "insertText",
                                          [value |-> entry[1].body]),
                                 "documentation", entry[1].description)]
       ELSE [op |-> "resolve", pc |-> "worker", requests |-> <<>>,
             item |-> item, result |-> item]

\* The first then-callback of resolveCompletionItem: the request is made for
\* the text as it is now.
workerReady(chain, line) ==
    [chain EXCEPT !.pc = "pending",
                  !.requests = <<detailsRequest(line, chain.item)>>]

detailsArrived_always(item, values) ==
    IF ~values.some THEN item
    ELSE IF ~values.value.details.some THEN item
    ELSE LET details == values.value.details.value
             i1 == SetField(item, "kind", convertKind(details.kind))
             i2 == SetField(i1, "detail",
                            displayPartsToString(details.displayParts))
             i3 == SetField(i2, "documentation",
                            displayPartsToString(details.documentation))
         IN SetField(i3, "insertText", [value |-> values.value.codeSnippet])

\* The then-callback of resolveCompletionItem.
detailsArrived(item, values) ==
    IF ~values.some THEN item
    ELSE IF ~values.value.details.some THEN item
    ELSE LET details == values.value.details.value
             i1 == SetField(item, "kind", convertKind(details.kind))
             i2 == SetField(i1, "detail",
                            displayPartsToString(details.displayParts))
             i3 == SetField(i2, "documentation",
                            displayPartsToString(details.documentation))
         IN SetField(i3, "insertText",
                     IF ~item.skipCodeSnippet
                     THEN [value |-> values.value.codeSnippet] ELSE Null)

\* Answers of worker.getCompletionEntryDetailsAndSnippet
DetailsAndSnippets ==
    {NoAnswer,
     Answer([details |-> NoAnswer, codeSnippet |-> <<"f(${1:x})">>]),
     Answer([details |-> Answer([kind |-> "function",
                                 displayParts |-> <<Part("f"), Part("()")>>,
                                 documentation |-> <<Part("doc")>>]),
             codeSnippet |-> <<"f(${1:x})">>])}

\* The host asks to resolve a candidate of the list it was given.
ResolveRequest(k) ==
    /\ call.op = "suggest" /\ call.pc = "done" /\ call.result.defined
    /\ k \in 1..Len(call.result.value)
    /\ call' = resolveCompletionItem(call.result.value[k]) @@
               [line |-> call.line]
    /\ UNCHANGED diagVars

\* The line is edited while the resolution waits for the worker.
ResolveTextChange(t) ==
    /\ call.op = "resolve" /\ call.pc = "worker"
    /\ t # content["a.ts"]
    /\ content' = [content EXCEPT !["a.ts"] = t]
    /\ UNCHANGED <<open, lang, config, _disposables, _listener, subs, handle,
                   timers, passes, markers, burstN, burstPasses, sinceChange,
                   call>>

\* this._worker(resource) resolves and the details request is made.
ResolveWorkerReady ==
    /\ call.op = "resolve" /\ call.pc = "worker"
    /\ call' = workerReady(call, content["a.ts"])
    /\ UNCHANGED diagVars

\* The worker answers the details request.
ResolveAnswer(values) ==
    /\ call.op = "resolve" /\ call.pc = "pending"
    /\ call' = [call EXCEPT !.pc = "done",
                            !.result = detailsArrived(call.item, values)] @@
               [values |-> values]
    /\ UNCHANGED diagVars

\* The texts an edit leaves on the line while a resolution waits.
EditedLines == {<<>>, <<"a">>}

\* The candidates of the list the host was given.
Listed ==
    IF call.op = "suggest" /\ call.pc = "done" /\ call.result.defined
    THEN 1..Len(call.result.value) ELSE {}

NextResolve ==
    \/ \E column \in 1..(MaxLine + 1) : SuggestRequest(column)
    \/ \E info \in CompletionInfos, navigation \in NavigateToItems :
          SuggestAnswer(info, navigation)
    \/ \E k \in Listed : ResolveRequest(k)
    \/ \E t \in EditedLines : ResolveTextChange(t)
    \/ ResolveWorkerReady
    \/ \E values \in DetailsAndSnippets : ResolveAnswer(values)

SpecResolve == InitSuggest /\ [][NextResolve]_vars

Resolving == call.op = "resolve"

\* The snippets: prefix, literal body and description.
SnippetBody(label) ==
    CASE label = <<"for">> ->
            <<"for (let ${1:index} = 0; ${1:index} < 4; ${1:index}++) {", NL,
              "\t$0", NL, "}">>
      [] label = <<"if">> ->
            <<"if (${1:condition}) {", NL, "\t$0", NL, "}">>
      [] label = <<"while">> ->
            <<"while (${1:condition}) {", NL, "\t$0", NL, "}">>
SnippetDescription(label) ==
    CASE label = <<"for">> -> "For Loop"
      [] label = <<"if">> -> "If Statement"
      [] label = <<"while">> -> "While Statement"

\* C17 (snippet resolution): resolving a candidate whose label is a snippet
\* prefix (for, if, while) makes no service request and yields the candidate
\* with the literal snippet body (lines joined by newline) as insert text and
\* the snippet description as documentation; a candidate whose label is no
\* prefix makes exactly one details request.
SnippetResolution ==
    Resolving =>
        IF call.item.label \in {<<"for">>, <<"if">>, <<"while">>}
        THEN /\ call.requests = <<>>
             /\ call.pc = "done"
             /\ call.result =
                    SetField(SetField(call.item, "insertText",
                                 [value |-> SnippetBody(call.item.label)]),
                             "documentation",
                             SnippetDescription(call.item.label))
        ELSE IF call.pc = "worker" THEN call.requests = <<>>
        ELSE /\ Len(call.requests) = 1
             /\ call.requests[1].name = call.item.name
             /\ call.requests[1].label = call.item.label

\* The fuzzy-symbol candidate labelled "if" was resolved to the snippet.
SnippetResolutionWitness ==
    /\ Resolving
    /\ call.item.label = <<"if">>
    /\ "navigation" \in DOMAIN call.item
    /\ call.result.documentation = "If Statement"

\* The candidate went to the service and the service answered with details.
ResolvedWithDetails ==
    /\ Resolving /\ call.pc = "done"
    /\ "values" \in DOMAIN call
    /\ call.values.some /\ call.values.value.details.some

\* Something other than blanks stands at or after the column on the line.
NonWhitespaceFollows(line, column) ==
    \E i \in 1..Len(line) : i >= column /\ line[i] # " "

\* C21 (snippet suppression on resolution): for a candidate resolved through
\* the service with details present, the service's code snippet becomes the
\* insert text iff skipCodeSnippet is false, where skipCodeSnippet is true iff
\* non-whitespace text followed the cursor on its line at request time; with
\* skipCodeSnippet true no snippet is applied and no insert text is left, so
\* the label alone is inserted (direct and fuzzy-symbol candidates alike).
SnippetSuppression ==
    ResolvedWithDetails =>
        /\ call.item.skipCodeSnippet =
               NonWhitespaceFollows(call.line, call.item.position.column)
        /\ call.result.label = call.item.label
        /\ IF call.item.skipCodeSnippet
           THEN call.result.insertText = Null
           ELSE call.result.insertText =
                    [value |-> call.values.value.codeSnippet]

\* A fuzzy-symbol candidate asked for in front of other text was resolved with
\* details and lost its insert text.
SnippetSuppressionWitness ==
    /\ ResolvedWithDetails
    /\ "navigation" \in DOMAIN call.item
    /\ call.item.skipCodeSnippet
    /\ call.result.insertText = Null

(***************************************************************************)
(* Adapter._positionToOffset / _offsetToPosition on every small text       *)
(***************************************************************************)
MaxText == 4            \* characters of a text whose positions are converted
PositionTexts == UNION {[1..n -> {"a", NL}] : n \in 0..MaxText}

InitPosition ==
    /\ InitQuiet
    /\ \E t \in PositionTexts :
          content = [d \in Docs |-> IF d \in Editable THEN t ELSE NoText]
    /\ call = NoCall

\* A position of a.ts, valid or not, is converted to an offset and back.
ToOffset(lineNumber, column) ==
    /\ call.op = "none"
    /\ LET position == [lineNumber |-> lineNumber, column |-> column]
           offset == _positionToOffset(content["a.ts"], position)
       IN call' = [op |-> "toOffset", position |-> position, offset |-> offset,
                   back |-> _offsetToPosition(content["a.ts"], offset)]
    /\ UNCHANGED diagVars

\* An offset of a.ts, valid or not, is converted to a position and back.
ToPosition(offset) ==
    /\ call.op = "none"
    /\ LET position == _offsetToPosition(content["a.ts"], offset)
       IN call' = [op |-> "toPosition", offset |-> offset,
                   position |-> position,
                   back |-> _positionToOffset(content["a.ts"], position)]
    /\ UNCHANGED diagVars

NextPosition ==
    \/ \E lineNumber \in 0..(MaxText + 2), column \in 0..(MaxText + 2) :
          ToOffset(lineNumber, column)
    \/ \E offset \in (-1)..(MaxText + 1) : ToPosition(offset)

SpecPosition == InitPosition /\ [][NextPosition]_vars

\* The lines of a text: the characters between its line breaks.
RECURSIVE LinesOf(_)
LinesOf(text) ==
    LET breaks == {i \in 1..Len(text) : text[i] = NL}
    IN IF breaks = {} THEN <<text>>
       ELSE LET i == CHOOSE b \in breaks : \A o \in breaks : b <= o
            IN <<SubSeq(text, 1, i - 1)>>
               \o LinesOf(SubSeq(text, i + 1, Len(text)))

ValidPosition(text, position) ==
    /\ position.lineNumber \in 1..Len(LinesOf(text))
    /\ position.column \in 1..(Len(LinesOf(text)[position.lineNumber]) + 1)

ValidOffset(text, offset) == offset \in 0..Len(text)

\* C19 (position round-trip): for every valid position p of an open document
\* _offsetToPosition(_positionToOffset(p)) = p, and for every valid offset o
\* _positionToOffset(_offsetToPosition(o)) = o.
PositionRoundTrip ==
    /\ (call.op = "toOffset" /\ ValidPosition(content["a.ts"], call.position))
           => call.back = call.position
    /\ (call.op = "toPosition" /\ ValidOffset(content["a.ts"], call.offset))
           => call.back = call.offset

\* The position after the line break of a two-line text went to its offset and
\* came back.
PositionRoundTripWitness ==
    /\ call.op = "toOffset"
    /\ content["a.ts"] = <<"a", NL, "a", "a">>
    /\ call.position = [lineNumber |-> 2, column |-> 2]
    /\ call.offset = 3
    /\ call.back = call.position

====
